---- MODULE Spec2Model ----
(***************************************************************************)
(* Model of package pack (aarondl/pack): semantic versions, comparison     *)
(* operators and dependency lines.                                         *)
(*                                                                         *)
(* Strings are sequences of one-character strings.  Unsigned integers are  *)
(* words of 16-bit limbs, most significant limb first, because a uint      *)
(* parsed with bit size 32 (and the int64 of compareReleases) exceeds the  *)
(* integers of the model checker; parsing multiplies and adds on the limbs *)
(* and formatting divides them by ten, as strconv and fmt do.              *)
(***************************************************************************)
EXTENDS Integers, Sequences, FiniteSets, TLC

VARIABLES bStr, cStr, b, c, op, ok, text, back, pc,
          depStr, dep, depText, depBack,
          opStr, opRes, opText, opBack,
          yKind, yValue, yRecv, yRecv0, yOk,
          pGopath, pPackset, paths, pErr, pFrames,
          dvcs, disk, diskBefore, dCmd, dErr, dCalls,
          oStr, oVer, oGt

vars == <<bStr, cStr, b, c, op, ok, text, back, pc,
          depStr, dep, depText, depBack,
          opStr, opRes, opText, opBack,
          yKind, yValue, yRecv, yRecv0, yOk,
          pGopath, pPackset, paths, pErr, pFrames,
          dvcs, disk, diskBefore, dCmd, dErr, dCalls,
          oStr, oVer, oGt>>

versionVars == <<bStr, cStr, b, c, op, ok, text, back>>
depVars == <<depStr, dep, depText, depBack>>
opVars == <<opStr, opRes, opText, opBack>>
yamlVars == <<yKind, yValue, yRecv, yRecv0, yOk>>
pathVars == <<pGopath, pPackset, paths, pErr, pFrames>>
dvcsVars == <<dvcs, disk, diskBefore, dCmd, dErr, dCalls>>
orderVars == <<oStr, oVer, oGt>>
extVars == <<yamlVars, pathVars, dvcsVars, orderVars>>

(***************************************************************************)
(* Bounds of the checked inputs.                                           *)
(***************************************************************************)
\* major, minor and patch of the generated versions range over 0..MaxNum
MaxNum == 1
\* generated releases have at most MaxIdents identifiers
MaxIdents == 2
\* generated dependency lines have at most MaxTokens tokens after the name
MaxTokens == 3
\* generated operator strings have at most MaxOpLen characters
MaxOpLen == 2
\* dependencies built by hand have at most MaxCons constraints
MaxCons == 2
\* generated path lists have at most MaxEntries entries
MaxEntries == 2
\* the stack holds at most MaxFrames frames of one function
MaxFrames == 3
\* a repository is cloned at most MaxCalls times
MaxCalls == 2

(***************************************************************************)
(* Program constants.                                                      *)
(***************************************************************************)
intBase == 10
intSize == 32

(***************************************************************************)
(* Characters and bytes.                                                   *)
(***************************************************************************)
DigitChars == <<"0", "1", "2", "3", "4", "5", "6", "7", "8", "9">>
UpperChars == <<"A", "B", "C", "D", "E", "F", "G", "H", "I", "J", "K", "L", "M",
                "N", "O", "P", "Q", "R", "S", "T", "U", "V", "W", "X", "Y", "Z">>
LowerChars == <<"a", "b", "c", "d", "e", "f", "g", "h", "i", "j", "k", "l", "m",
                "n", "o", "p", "q", "r", "s", "t", "u", "v", "w", "x", "y", "z">>

Range(s) == {s[i] : i \in 1..Len(s)}

Digits == Range(DigitChars)
\* [a-z] under the (?i) flag
Letters == Range(LowerChars) \cup Range(UpperChars)

IsDigit(ch) == ch \in Digits
IsAlpha(ch) == ch \in Letters

Punctuation ==
    {<<" ", 32>>, <<"!", 33>>, <<"%", 37>>, <<"&", 38>>, <<"-", 45>>,
     <<".", 46>>, <<"/", 47>>, <<":", 58>>, <<"<", 60>>, <<"=", 61>>,
     <<">", 62>>, <<"?", 63>>, <<"@", 64>>, <<"_", 95>>, <<"~", 126>>}

\* the byte value of each character (ASCII)
ByteTable ==
    [ch \in Digits \cup Letters \cup {p[1] : p \in Punctuation} |->
        IF ch \in Digits
        THEN 47 + (CHOOSE i \in 1..10 : DigitChars[i] = ch)
        ELSE IF ch \in Range(UpperChars)
        THEN 64 + (CHOOSE i \in 1..26 : UpperChars[i] = ch)
        ELSE IF ch \in Range(LowerChars)
        THEN 96 + (CHOOSE i \in 1..26 : LowerChars[i] = ch)
        ELSE (CHOOSE p \in Punctuation : p[1] = ch)[2]]

ByteOf(ch) == ByteTable[ch]

DigitVal(ch) == ByteOf(ch) - ByteOf("0")

(***************************************************************************)
(* strings.Split(s, sep) for a one-character separator: the substrings     *)
(* between the separators; the empty string gives one empty substring.     *)
(***************************************************************************)
RECURSIVE SplitFrom(_, _, _, _)
SplitFrom(s, sep, i, cur) ==
    IF i > Len(s) THEN <<cur>>
    ELSE IF s[i] = sep THEN <<cur>> \o SplitFrom(s, sep, i + 1, <<>>)
    ELSE SplitFrom(s, sep, i + 1, Append(cur, s[i]))

Split(s, sep) == SplitFrom(s, sep, 1, <<>>)

RECURSIVE Join(_, _)
Join(parts, sep) ==
    IF parts = <<>> THEN <<>>
    ELSE IF Len(parts) = 1 THEN parts[1]
    ELSE parts[1] \o <<sep>> \o Join(Tail(parts), sep)

(***************************************************************************)
(* Machine words: sequences of limbs below LimbBase, most significant      *)
(* first.                                                                  *)
(***************************************************************************)
LimbBase == 2 ^ 16

ZeroWord(bits) == [i \in 1..(bits \div 16) |-> 0]

\* w * m + a as <<carry out, limbs>>
RECURSIVE MulAdd(_, _, _)
MulAdd(w, m, a) ==
    IF w = <<>> THEN <<a, <<>>>>
    ELSE LET t == w[Len(w)] * m + a
             r == MulAdd(SubSeq(w, 1, Len(w) - 1), m, t \div LimbBase)
         IN  <<r[1], Append(r[2], t % LimbBase)>>

\* w divided by d as <<quotient limbs, remainder>>, entered with rem = 0
RECURSIVE DivMod(_, _, _)
DivMod(w, d, rem) ==
    IF w = <<>> THEN <<<<>>, rem>>
    ELSE LET t == rem * LimbBase + Head(w)
             r == DivMod(Tail(w), d, t % d)
         IN  <<<<t \div d>> \o r[1], r[2]>>

IsZeroWord(w) == \A i \in 1..Len(w) : w[i] = 0

\* -1, 0 or 1 as x is below, equal to or above y (words of one length)
RECURSIVE WordCmp(_, _)
WordCmp(x, y) ==
    IF x = <<>> THEN 0
    ELSE IF Head(x) < Head(y) THEN -1
    ELSE IF Head(x) > Head(y) THEN 1
    ELSE WordCmp(Tail(x), Tail(y))

WordOfNat(n, bits) == MulAdd(ZeroWord(bits), 0, n)[2]

(***************************************************************************)
(* strconv.ParseUint(s, 10, bitSize): a syntax error for the empty string  *)
(* or a character that is no digit, a range error when the value does not  *)
(* fit bitSize bits.                                                       *)
(***************************************************************************)
\* ParseUint that drops the carry out of the word instead of reporting it
RECURSIVE ParseUintFrom_Wrap(_, _, _)
ParseUintFrom_Wrap(s, i, acc) ==
    IF i > Len(s) THEN [err |-> "nil", n |-> acc]
    ELSE IF ~IsDigit(s[i]) THEN [err |-> "syntax", n |-> acc]
    ELSE ParseUintFrom_Wrap(s, i + 1,
                            MulAdd(acc, intBase, DigitVal(s[i]))[2])

RECURSIVE ParseUintFrom(_, _, _)
ParseUintFrom(s, i, acc) ==
    IF i > Len(s) THEN [err |-> "nil", n |-> acc]
    ELSE IF ~IsDigit(s[i]) THEN [err |-> "syntax", n |-> acc]
    ELSE LET r == MulAdd(acc, intBase, DigitVal(s[i]))
         IN  IF r[1] # 0 THEN [err |-> "range", n |-> acc]
             ELSE ParseUintFrom(s, i + 1, r[2])

ParseUint(s, bitSize) ==
    IF s = <<>> THEN [err |-> "syntax", n |-> ZeroWord(bitSize)]
    ELSE ParseUintFrom(s, 1, ZeroWord(bitSize))

\* the %d verb of fmt.Sprintf applied to a uint
RECURSIVE FormatDigits(_)
FormatDigits(w) ==
    IF IsZeroWord(w) THEN <<>>
    ELSE LET qr == DivMod(w, intBase, 0)
         IN  Append(FormatDigits(qr[1]), DigitChars[qr[2] + 1])

FormatUint(w) == IF IsZeroWord(w) THEN <<"0">> ELSE FormatDigits(w)

(***************************************************************************)
(* strconv.ParseInt(s, 10, 64) on the strings a release identifier can be  *)
(* (letters and digits, no sign): ParseUint at 64 bits, and a range error  *)
(* from 2^63 on.                                                           *)
(***************************************************************************)
ParseInt(s) ==
    LET u == ParseUint(s, 64)
    IN  IF u.err # "nil" THEN u
        ELSE IF u.n[1] >= 2 ^ 15 THEN [err |-> "range", n |-> u.n]
        ELSE u

(***************************************************************************)
(* rgxVersion, version.go.  The match of the whole string, or Nil.  A      *)
(* match is <<whole, major, minor, patch, release>>: Go's parts[k] is      *)
(* element k + 1.                                                          *)
(***************************************************************************)
Nil == <<>>

FirstIndex(s, ch) ==
    IF ch \in Range(s)
    THEN CHOOSE i \in 1..Len(s) : s[i] = ch /\ \A j \in 1..(i - 1) : s[j] # ch
    ELSE 0

\* [0-9]+ in place of 0|[1-9][0-9]*
MatchNum_LeadingZeros(s) ==
    Len(s) >= 1 /\ \A i \in 1..Len(s) : IsDigit(s[i])

\* 0|[1-9][0-9]*
MatchNum(s) ==
    \/ s = <<"0">>
    \/ /\ Len(s) >= 1
       /\ IsDigit(s[1]) /\ s[1] # "0"
       /\ \A i \in 1..Len(s) : IsDigit(s[i])

\* [a-z][a-z0-9]*|[1-9][0-9]*
MatchIdent(s) ==
    /\ Len(s) >= 1
    /\ \/ /\ IsAlpha(s[1])
          /\ \A i \in 1..Len(s) : IsAlpha(s[i]) \/ IsDigit(s[i])
       \/ /\ IsDigit(s[1]) /\ s[1] # "0"
          /\ \A i \in 1..Len(s) : IsDigit(s[i])

rgxVersion(str) ==
    LET dash == FirstIndex(str, "-")
        core == IF dash = 0 THEN str ELSE SubSeq(str, 1, dash - 1)
        rel  == IF dash = 0 THEN <<>> ELSE SubSeq(str, dash + 1, Len(str))
        nums == Split(core, ".")
        ids  == Split(rel, ".")
    IN  IF /\ Len(nums) = 3
           /\ \A i \in 1..3 : MatchNum(nums[i])
           /\ dash # 0 => \A i \in 1..Len(ids) : MatchIdent(ids[i])
        THEN <<str, nums[1], nums[2], nums[3], rel>>
        ELSE Nil

(***************************************************************************)
(* ComparisonOp, version.go.  0 is the unset operator.                     *)
(***************************************************************************)
Equal == 1
NotEqual == 2
GreaterThan == 3
LessThan == 4
GreaterEqual == 5
LessEqual == 6
ApproxGreater == 7

Ops == {Equal, NotEqual, GreaterThan, LessThan, GreaterEqual, LessEqual,
        ApproxGreater}

(***************************************************************************)
(* ParseVersion.  A result is [version, err]: version is Nil or <<v>>, a   *)
(* pointer to the Version v; err is "nil" or the kind of the error.        *)
(***************************************************************************)
ZeroVersion ==
    [Major |-> ZeroWord(intSize), Minor |-> ZeroWord(intSize),
     Patch |-> ZeroWord(intSize), Release |-> <<>>]

ParseVersion(str) ==
    IF Len(str) = 0 THEN [version |-> Nil, err |-> "empty"]
    ELSE LET parts == rgxVersion(str)
         IN  IF parts = Nil THEN [version |-> Nil, err |-> "format"]
             ELSE LET mj == ParseUint(parts[2], intSize)
                      mn == ParseUint(parts[3], intSize)
                      pt == ParseUint(parts[4], intSize)
                      v1 == [ZeroVersion EXCEPT !.Major = mj.n]
                      v2 == [v1 EXCEPT !.Minor = mn.n]
                      v3 == [v2 EXCEPT !.Patch = pt.n]
                  IN  IF mj.err # "nil"
                      THEN [version |-> <<ZeroVersion>>, err |-> mj.err]
                      ELSE IF mn.err # "nil"
                      THEN [version |-> <<v1>>, err |-> mn.err]
                      ELSE IF pt.err # "nil"
                      THEN [version |-> <<v2>>, err |-> pt.err]
                      ELSE [version |-> <<[v3 EXCEPT !.Release = parts[5]]>>,
                            err |-> "nil"]

(***************************************************************************)
(* ParseOp and ComparisonOp.String.                                        *)
(***************************************************************************)
ParseOp(str) ==
    CASE str = <<"=">> -> [op |-> Equal, err |-> "nil"]
      [] str = <<"!", "=">> -> [op |-> NotEqual, err |-> "nil"]
      [] str = <<">">> -> [op |-> GreaterThan, err |-> "nil"]
      [] str = <<"<">> -> [op |-> LessThan, err |-> "nil"]
      [] str = <<">", "=">> -> [op |-> GreaterEqual, err |-> "nil"]
      [] str = <<"<", "=">> -> [op |-> LessEqual, err |-> "nil"]
      [] str = <<"~">> -> [op |-> ApproxGreater, err |-> "nil"]
      [] OTHER -> [op |-> 0, err |-> "op"]

\* String that prints GreaterEqual with its two characters exchanged
OpString_Swapped(o) ==
    CASE o = Equal -> <<"=">>
      [] o = NotEqual -> <<"!", "=">>
      [] o = GreaterThan -> <<">">>
      [] o = LessThan -> <<"<">>
      [] o = GreaterEqual -> <<"=", ">">>
      [] o = LessEqual -> <<"<", "=">>
      [] o = ApproxGreater -> <<"~">>
      [] OTHER -> <<>>

OpString(o) ==
    CASE o = Equal -> <<"=">>
      [] o = NotEqual -> <<"!", "=">>
      [] o = GreaterThan -> <<">">>
      [] o = LessThan -> <<"<">>
      [] o = GreaterEqual -> <<">", "=">>
      [] o = LessEqual -> <<"<", "=">>
      [] o = ApproxGreater -> <<"~">>
      [] OTHER -> <<>>

(***************************************************************************)
(* compareStrings and compareReleases.                                     *)
(***************************************************************************)
\* compareStrings whose longer string loses on either side
RECURSIVE compareBytes_LongerLoses(_, _, _)
compareBytes_LongerLoses(lhs, rhs, i) ==
    IF i <= Len(lhs) /\ i <= Len(rhs)
    THEN LET val == ByteOf(lhs[i]) - ByteOf(rhs[i])
         IN  IF val > 0 THEN -1
             ELSE IF val < 0 THEN 1
             ELSE compareBytes_LongerLoses(lhs, rhs, i + 1)
    ELSE IF i <= Len(lhs) THEN -1
    ELSE IF i <= Len(rhs) THEN -1
    ELSE 0

RECURSIVE compareBytes(_, _, _)
compareBytes(lhs, rhs, i) ==
    IF i <= Len(lhs) /\ i <= Len(rhs)
    THEN LET val == ByteOf(lhs[i]) - ByteOf(rhs[i])
         IN  IF val > 0 THEN -1
             ELSE IF val < 0 THEN 1
             ELSE compareBytes(lhs, rhs, i + 1)
    ELSE IF i <= Len(lhs) THEN -1
    ELSE IF i <= Len(rhs) THEN 1
    ELSE 0

compareStrings(lhs, rhs) == compareBytes(lhs, rhs, 1)

\* the loop of compareReleases over the identifier lists, and what follows it
RECURSIVE compareIdents(_, _, _)
compareIdents(bl, cl, i) ==
    IF i <= Len(bl) /\ i <= Len(cl)
    THEN LET bnum == ParseInt(bl[i])
             cnum == ParseInt(cl[i])
             bIsNum == bnum.err = "nil"
             cIsNum == cnum.err = "nil"
         IN  CASE bIsNum /\ ~cIsNum -> 1
               [] ~bIsNum /\ cIsNum -> -1
               [] bIsNum /\ cIsNum ->
                    LET val == WordCmp(bnum.n, cnum.n)
                    IN  IF val > 0 THEN -1
                        ELSE IF val < 0 THEN 1
                        ELSE compareIdents(bl, cl, i + 1)
               [] ~bIsNum /\ ~cIsNum ->
                    LET val == compareStrings(bl[i], cl[i])
                    IN  IF val # 0 THEN val
                        ELSE compareIdents(bl, cl, i + 1)
    ELSE IF i <= Len(bl) THEN -1
    ELSE IF i <= Len(cl) THEN 1
    ELSE 0

compareReleases(base, compare) ==
    IF Len(base) = 0 /\ Len(compare) = 0 THEN 0
    ELSE compareIdents(Split(base, "."), Split(compare, "."), 1)

(***************************************************************************)
(* Version.Satisfies.                                                      *)
(***************************************************************************)
Gt(x, y) == WordCmp(x, y) > 0
Lt(x, y) == WordCmp(x, y) < 0

SatisfiesEqual(bv, cv) ==
    bv.Major = cv.Major /\ bv.Minor = cv.Minor /\ bv.Patch = cv.Patch
    /\ bv.Release = cv.Release

\* NotEqual that does not look at the release
SatisfiesNotEqual_NoRelease(bv, cv) ==
    bv.Major # cv.Major \/ bv.Minor # cv.Minor \/ bv.Patch # cv.Patch

SatisfiesNotEqual(bv, cv) ==
    bv.Major # cv.Major \/ bv.Minor # cv.Minor \/ bv.Patch # cv.Patch
    \/ bv.Release # cv.Release

\* GreaterThan that looks at the releases of versions that differ before
SatisfiesGreaterThan_AnyRelease(bv, cv) ==
    \/ Gt(bv.Major, cv.Major)
    \/ bv.Major = cv.Major /\ Gt(bv.Minor, cv.Minor)
    \/ bv.Major = cv.Major /\ bv.Minor = cv.Minor /\ Gt(bv.Patch, cv.Patch)
    \/ compareReleases(bv.Release, cv.Release) > 0

\* GreaterThan that also holds of equal releases
SatisfiesGreaterThan_OrEqual(bv, cv) ==
    \/ Gt(bv.Major, cv.Major)
    \/ bv.Major = cv.Major /\ Gt(bv.Minor, cv.Minor)
    \/ bv.Major = cv.Major /\ bv.Minor = cv.Minor /\ Gt(bv.Patch, cv.Patch)
    \/ bv.Major = cv.Major /\ bv.Minor = cv.Minor /\ bv.Patch = cv.Patch
       /\ compareReleases(bv.Release, cv.Release) >= 0

SatisfiesGreaterThan(bv, cv) ==
    \/ Gt(bv.Major, cv.Major)
    \/ bv.Major = cv.Major /\ Gt(bv.Minor, cv.Minor)
    \/ bv.Major = cv.Major /\ bv.Minor = cv.Minor /\ Gt(bv.Patch, cv.Patch)
    \/ bv.Major = cv.Major /\ bv.Minor = cv.Minor /\ bv.Patch = cv.Patch
       /\ compareReleases(bv.Release, cv.Release) > 0

\* LessThan that looks at the minor version before the major one
SatisfiesLessThan_MinorFirst(bv, cv) ==
    \/ Lt(bv.Minor, cv.Minor)
    \/ bv.Minor = cv.Minor /\ Lt(bv.Major, cv.Major)
    \/ bv.Major = cv.Major /\ bv.Minor = cv.Minor /\ Lt(bv.Patch, cv.Patch)
    \/ bv.Major = cv.Major /\ bv.Minor = cv.Minor /\ bv.Patch = cv.Patch
       /\ compareReleases(bv.Release, cv.Release) < 0

SatisfiesLessThan(bv, cv) ==
    \/ Lt(bv.Major, cv.Major)
    \/ bv.Major = cv.Major /\ Lt(bv.Minor, cv.Minor)
    \/ bv.Major = cv.Major /\ bv.Minor = cv.Minor /\ Lt(bv.Patch, cv.Patch)
    \/ bv.Major = cv.Major /\ bv.Minor = cv.Minor /\ bv.Patch = cv.Patch
       /\ compareReleases(bv.Release, cv.Release) < 0

\* GreaterEqual without the case of two identical versions
SatisfiesGreaterEqual_Strict(bv, cv) ==
    \/ Gt(bv.Major, cv.Major)
    \/ bv.Major = cv.Major /\ Gt(bv.Minor, cv.Minor)
    \/ bv.Major = cv.Major /\ bv.Minor = cv.Minor /\ Gt(bv.Patch, cv.Patch)
    \/ bv.Major = cv.Major /\ bv.Minor = cv.Minor /\ bv.Patch = cv.Patch
       /\ compareReleases(bv.Release, cv.Release) > 0

SatisfiesGreaterEqual(bv, cv) ==
    \/ bv.Major = cv.Major /\ bv.Minor = cv.Minor /\ bv.Patch = cv.Patch
       /\ bv.Release = cv.Release
    \/ Gt(bv.Major, cv.Major)
    \/ bv.Major = cv.Major /\ Gt(bv.Minor, cv.Minor)
    \/ bv.Major = cv.Major /\ bv.Minor = cv.Minor /\ Gt(bv.Patch, cv.Patch)
    \/ bv.Major = cv.Major /\ bv.Minor = cv.Minor /\ bv.Patch = cv.Patch
       /\ compareReleases(bv.Release, cv.Release) >= 0

SatisfiesLessEqual(bv, cv) ==
    \/ bv.Major = cv.Major /\ bv.Minor = cv.Minor /\ bv.Patch = cv.Patch
       /\ bv.Release = cv.Release
    \/ Lt(bv.Major, cv.Major)
    \/ bv.Major = cv.Major /\ Lt(bv.Minor, cv.Minor)
    \/ bv.Major = cv.Major /\ bv.Minor = cv.Minor /\ Lt(bv.Patch, cv.Patch)
    \/ bv.Major = cv.Major /\ bv.Minor = cv.Minor /\ bv.Patch = cv.Patch
       /\ compareReleases(bv.Release, cv.Release) <= 0

\* ApproxGreater that forgets the major version: GreaterEqual
SatisfiesApproxGreater_AnyMajor(bv, cv) ==
    \/ bv.Major = cv.Major /\ bv.Minor = cv.Minor /\ bv.Patch = cv.Patch
       /\ bv.Release = cv.Release
    \/ Gt(bv.Major, cv.Major)
    \/ bv.Major = cv.Major /\ Gt(bv.Minor, cv.Minor)
    \/ bv.Major = cv.Major /\ bv.Minor = cv.Minor /\ Gt(bv.Patch, cv.Patch)
    \/ bv.Major = cv.Major /\ bv.Minor = cv.Minor /\ bv.Patch = cv.Patch
       /\ compareReleases(bv.Release, cv.Release) >= 0

\* ApproxGreater without the case of a higher minor version
SatisfiesApproxGreater_SameMinor(bv, cv) ==
    \/ bv.Major = cv.Major /\ bv.Minor = cv.Minor /\ bv.Patch = cv.Patch
       /\ bv.Release = cv.Release
    \/ bv.Major = cv.Major /\ bv.Minor = cv.Minor /\ Gt(bv.Patch, cv.Patch)
    \/ bv.Major = cv.Major /\ bv.Minor = cv.Minor /\ bv.Patch = cv.Patch
       /\ compareReleases(bv.Release, cv.Release) >= 0

SatisfiesApproxGreater(bv, cv) ==
    \/ bv.Major = cv.Major /\ bv.Minor = cv.Minor /\ bv.Patch = cv.Patch
       /\ bv.Release = cv.Release
    \/ bv.Major = cv.Major /\ Gt(bv.Minor, cv.Minor)
    \/ bv.Major = cv.Major /\ bv.Minor = cv.Minor /\ Gt(bv.Patch, cv.Patch)
    \/ bv.Major = cv.Major /\ bv.Minor = cv.Minor /\ bv.Patch = cv.Patch
       /\ compareReleases(bv.Release, cv.Release) >= 0

\* the switch on op; an operator outside the seven leaves ok false
Satisfies(bv, o, cv) ==
    CASE o = Equal -> SatisfiesEqual(bv, cv)
      [] o = NotEqual -> SatisfiesNotEqual(bv, cv)
      [] o = GreaterThan -> SatisfiesGreaterThan(bv, cv)
      [] o = LessThan -> SatisfiesLessThan(bv, cv)
      [] o = GreaterEqual -> SatisfiesGreaterEqual(bv, cv)
      [] o = LessEqual -> SatisfiesLessEqual(bv, cv)
      [] o = ApproxGreater -> SatisfiesApproxGreater(bv, cv)
      [] OTHER -> FALSE

(***************************************************************************)
(* Version.String.                                                         *)
(***************************************************************************)
\* Version.String that leaves out the dash before the release
VersionString_NoDash(v) ==
    FormatUint(v.Major) \o <<".">> \o FormatUint(v.Minor) \o <<".">>
    \o FormatUint(v.Patch) \o v.Release

VersionString(v) ==
    LET release == IF Len(v.Release) > 0 THEN <<"-">> \o v.Release ELSE <<>>
    IN  FormatUint(v.Major) \o <<".">> \o FormatUint(v.Minor) \o <<".">>
        \o FormatUint(v.Patch) \o release

(***************************************************************************)
(* rgxConstraint and rgxDepUrl, dependency.go.  rgxConstraint gives Nil or *)
(* <<whole, operator, version>>: the operator is what precedes the first   *)
(* digit, since no operator holds a digit and the version starts with one. *)
(***************************************************************************)
OpTokens ==
    {<<"=">>, <<"!", "=">>, <<">">>, <<"<">>, <<">", "=">>, <<"<", "=">>,
     <<"~">>}

FirstDigit(s) ==
    IF \E i \in 1..Len(s) : IsDigit(s[i])
    THEN CHOOSE i \in 1..Len(s) :
            IsDigit(s[i]) /\ \A j \in 1..(i - 1) : ~IsDigit(s[j])
    ELSE 0

AllDigits(s) == Len(s) >= 1 /\ \A i \in 1..Len(s) : IsDigit(s[i])

\* [0-9]\.[0-9]+\.[0-9]+(?:-[a-z0-9\-\.]+)?
MatchConstraintVersion(s) ==
    LET dash == FirstIndex(s, "-")
        core == IF dash = 0 THEN s ELSE SubSeq(s, 1, dash - 1)
        tail == IF dash = 0 THEN <<>> ELSE SubSeq(s, dash + 1, Len(s))
        nums == Split(core, ".")
    IN  /\ Len(nums) = 3
        /\ Len(nums[1]) = 1 /\ IsDigit(nums[1][1])
        /\ AllDigits(nums[2]) /\ AllDigits(nums[3])
        /\ dash # 0 =>
              /\ Len(tail) >= 1
              /\ \A i \in 1..Len(tail) :
                    IsAlpha(tail[i]) \/ IsDigit(tail[i])
                    \/ tail[i] \in {"-", "."}

rgxConstraint(tok) ==
    LET k == FirstDigit(tok)
        o == IF k = 0 THEN <<>> ELSE SubSeq(tok, 1, k - 1)
        v == IF k = 0 THEN <<>> ELSE SubSeq(tok, k, Len(tok))
    IN  IF k # 0 /\ (o = <<>> \/ o \in OpTokens) /\ MatchConstraintVersion(v)
        THEN <<tok, o, v>>
        ELSE Nil

\* the lower-case form of a letter, any other character as it is
ToLower(ch) ==
    IF ch \in Range(UpperChars)
    THEN LowerChars[CHOOSE i \in 1..26 : UpperChars[i] = ch]
    ELSE ch

UrlChars == Digits \cup Letters \cup {"?", "-", "_", "@", ".", ":", "/", "=", "%", "&"}

\* (?i)^(git|bzr|hg)(?::([a-z0-9\?\-_@\.:/=%&]+))?$
rgxDepUrl(tok) ==
    LET colon  == FirstIndex(tok, ":")
        scheme == IF colon = 0 THEN tok ELSE SubSeq(tok, 1, colon - 1)
        rest   == IF colon = 0 THEN <<>> ELSE SubSeq(tok, colon + 1, Len(tok))
    IN  /\ [i \in 1..Len(scheme) |-> ToLower(scheme[i])]
             \in {<<"g", "i", "t">>, <<"b", "z", "r">>, <<"h", "g">>}
        /\ colon # 0 =>
              Len(rest) >= 1 /\ \A i \in 1..Len(rest) : rest[i] \in UrlChars

(***************************************************************************)
(* ParseDependency.  A result is [dep, err]: dep is Nil or <<d>>, a        *)
(* pointer to the Dependency d = [Name, Constraints, URL]; err is "nil",   *)
(* the kind of the error returned, or "panic" when the call does not       *)
(* return.  Constraints is a sequence of pointers: Nil or <<constraint>>;  *)
(* the nil slice is the empty sequence.                                    *)
(***************************************************************************)
\* the loop over the tokens after the name, from token i (counted from 1)
\* with the constraints cons collected so far
\* the loop of ParseDependency without the else branch that sets Equal
RECURSIVE ParseConstraints_NoDefault(_, _, _)
ParseConstraints_NoDefault(parts, i, cons) ==
    LET n == Len(parts)
    IN  IF i > n THEN [err |-> "nil", i |-> i, cons |-> cons]
        ELSE LET opVersion == rgxConstraint(parts[i])
             IN  IF opVersion = Nil
                 THEN IF i = n
                      THEN [err |-> "nil", i |-> i,
                            cons |-> IF cons # <<>>
                                     THEN SubSeq(cons, 1, n - 1) ELSE cons]
                      ELSE [err |-> "constraint", i |-> i, cons |-> cons]
                 ELSE LET made == IF cons = <<>>
                                  THEN [k \in 1..n |-> Nil] ELSE cons
                          o == IF Len(opVersion[2]) > 0
                               THEN ParseOp(opVersion[2])
                               ELSE [op |-> 0, err |-> "nil"]
                          v == ParseVersion(opVersion[3])
                      IN  IF o.err # "nil"
                          THEN [err |-> o.err, i |-> i, cons |-> made]
                          ELSE IF v.err # "nil"
                          THEN [err |-> "panic", i |-> i, cons |-> made]
                          ELSE ParseConstraints_NoDefault(parts, i + 1,
                                   [k \in 1..n |->
                                       IF k = i
                                       THEN <<[Operator |-> o.op,
                                               Version |-> v.version]>>
                                       ELSE made[k]])

RECURSIVE ParseConstraints(_, _, _)
ParseConstraints(parts, i, cons) ==
    LET n == Len(parts)
    IN  IF i > n THEN [err |-> "nil", i |-> i, cons |-> cons]
        ELSE LET opVersion == rgxConstraint(parts[i])
             IN  IF opVersion = Nil
                 THEN IF i = n
                      THEN [err |-> "nil", i |-> i,
                            cons |-> IF cons # <<>>
                                     THEN SubSeq(cons, 1, n - 1) ELSE cons]
                      ELSE [err |-> "constraint", i |-> i, cons |-> cons]
                 ELSE LET made == IF cons = <<>>
                                  THEN [k \in 1..n |-> Nil] ELSE cons
                          o == IF Len(opVersion[2]) > 0
                               THEN ParseOp(opVersion[2])
                               ELSE [op |-> Equal, err |-> "nil"]
                          v == ParseVersion(opVersion[3])
                      IN  IF o.err # "nil"
                          THEN [err |-> o.err, i |-> i, cons |-> made]
                          ELSE IF v.err # "nil"
                          THEN [err |-> "panic", i |-> i, cons |-> made]
                          ELSE ParseConstraints(parts, i + 1,
                                   [k \in 1..n |->
                                       IF k = i
                                       THEN <<[Operator |-> o.op,
                                               Version |-> v.version]>>
                                       ELSE made[k]])

ParseDependency(str) ==
    LET parts == Split(str, " ")
    IN  IF Len(str) = 0 \/ Len(parts[1]) = 0
        THEN [dep |-> Nil, err |-> "name"]
        ELSE LET name == parts[1]
                 rest == Tail(parts)
             IN  IF Len(rest) = 0
                 THEN [dep |-> <<[Name |-> name, Constraints |-> <<>>,
                                  URL |-> <<>>]>>,
                       err |-> "nil"]
                 ELSE LET r == ParseConstraints(rest, 1, <<>>)
                          left == SubSeq(rest, r.i, Len(rest))
                      IN  IF r.err # "nil" THEN [dep |-> Nil, err |-> r.err]
                          ELSE IF Len(left) = 0
                          THEN [dep |-> <<[Name |-> name,
                                           Constraints |-> r.cons,
                                           URL |-> <<>>]>>,
                                err |-> "nil"]
                          ELSE IF rgxDepUrl(left[1])
                          THEN [dep |-> <<[Name |-> name,
                                           Constraints |-> r.cons,
                                           URL |-> left[1]]>>,
                                err |-> "nil"]
                          ELSE [dep |-> Nil, err |-> "url"]

(***************************************************************************)
(* Dependency.String.  Every constraint of a parsed dependency is set.     *)
(***************************************************************************)
RECURSIVE ConstraintsString(_)
ConstraintsString(cons) ==
    IF cons = <<>> THEN <<>>
    ELSE <<" ">> \o OpString(Head(cons)[1].Operator)
         \o VersionString(Head(cons)[1].Version[1])
         \o ConstraintsString(Tail(cons))

\* Dependency.String that leaves out the space before the URL
DependencyString_NoUrlSpace(d) ==
    IF Len(d.Name) = 0 THEN <<>>
    ELSE d.Name \o ConstraintsString(d.Constraints) \o d.URL

\* Dependency.String without the early return for an empty name
DependencyString_NoNameTest(d) ==
    d.Name \o ConstraintsString(d.Constraints)
    \o (IF Len(d.URL) > 0 THEN <<" ">> \o d.URL ELSE <<>>)

DependencyString(d) ==
    IF Len(d.Name) = 0 THEN <<>>
    ELSE d.Name \o ConstraintsString(d.Constraints)
         \o (IF Len(d.URL) > 0 THEN <<" ">> \o d.URL ELSE <<>>)

(***************************************************************************)
(* Version.SetYAML and Dependency.SetYAML.  The value is a string or       *)
(* something else; the result is the ok returned and the receiver after    *)
(* the call, or a panic that ParseDependency raised.                       *)
(***************************************************************************)
\* if ok = tmp != nil && err == nil; !ok { return }; *v = *tmp
VersionSetFrom(v, tmp) ==
    IF tmp.version # Nil /\ tmp.err = "nil"
    THEN [ok |-> TRUE, recv |-> tmp.version[1], panic |-> FALSE]
    ELSE [ok |-> FALSE, recv |-> v, panic |-> FALSE]

VersionSetYAML(v, value) ==
    IF ~value.isString THEN [ok |-> FALSE, recv |-> v, panic |-> FALSE]
    ELSE VersionSetFrom(v, ParseVersion(value.s))

\* if ok = tmp != nil && err == nil; !ok { return }; *d = *tmp
DependencySetFrom(d, tmp) ==
    IF tmp.err = "panic" THEN [ok |-> FALSE, recv |-> d, panic |-> TRUE]
    ELSE IF tmp.dep # Nil /\ tmp.err = "nil"
    THEN [ok |-> TRUE, recv |-> tmp.dep[1], panic |-> FALSE]
    ELSE [ok |-> FALSE, recv |-> d, panic |-> FALSE]

DependencySetYAML(d, value) ==
    IF ~value.isString THEN [ok |-> FALSE, recv |-> d, panic |-> FALSE]
    ELSE DependencySetFrom(d, ParseDependency(value.s))

(***************************************************************************)
(* Paths, path.go, with the functions of path/filepath it uses (Unix: the  *)
(* list separator is the colon, the path separator the slash).             *)
(***************************************************************************)
GOPACKFOLDER == <<"g", "o", "p", "a", "c", "k">>
SRCFOLDER == <<"s", "r", "c">>
ListSeparator == ":"

\* filepath.SplitList: no entry for the empty list
SplitList(path) == IF path = <<>> THEN <<>> ELSE Split(path, ListSeparator)

\* the elements of a cleaned path: empty elements and "." are dropped, ".."
\* takes back the element before it, stays when there is none to take back
\* and is dropped at the root
RECURSIVE CleanElems(_, _, _)
CleanElems(elems, rooted, out) ==
    IF elems = <<>> THEN out
    ELSE LET e == Head(elems)
         IN  IF e = <<>> \/ e = <<".">>
             THEN CleanElems(Tail(elems), rooted, out)
             ELSE IF e = <<".", ".">>
             THEN IF out # <<>> /\ out[Len(out)] # <<".", ".">>
                  THEN CleanElems(Tail(elems), rooted,
                                  SubSeq(out, 1, Len(out) - 1))
                  ELSE IF rooted THEN CleanElems(Tail(elems), rooted, out)
                  ELSE CleanElems(Tail(elems), rooted, Append(out, e))
             ELSE CleanElems(Tail(elems), rooted, Append(out, e))

\* filepath.Clean
Clean(path) ==
    IF path = <<>> THEN <<".">>
    ELSE LET rooted == path[1] = "/"
             out == Join(CleanElems(Split(path, "/"), rooted, <<>>), "/")
         IN  IF rooted THEN <<"/">> \o out
             ELSE IF out = <<>> THEN <<".">>
             ELSE out

\* filepath.Join: the elements from the first one that is not empty, joined
\* by slashes and cleaned; the empty string when all are empty
RECURSIVE JoinPath(_)
JoinPath(elems) ==
    IF elems = <<>> THEN <<>>
    ELSE IF Head(elems) # <<>> THEN Clean(Join(elems, "/"))
    ELSE JoinPath(Tail(elems))

\* the loop of splitAndCullPath from index i on
RECURSIVE CullFrom(_, _)
CullFrom(list, i) ==
    IF i > Len(list) THEN list
    ELSE IF Len(list[i]) = 0
    THEN CullFrom(SubSeq(list, 1, i - 1) \o SubSeq(list, i + 1, Len(list)), i)
    ELSE CullFrom(list, i + 1)

splitAndCullPath(pathlist) == CullFrom(SplitList(pathlist), 1)

\* SetPackset on the Paths p
SetPackset(p, packset) ==
    LET gopackset == JoinPath(<<p.GopackPath, packset, SRCFOLDER>>)
    IN  [p EXCEPT !.packset = packset,
                  !.GopacksetPath = gopackset,
                  !.CombinedPath = p.Gopath \o <<ListSeparator>> \o gopackset]

\* NewPaths: [paths, err]; paths is Nil or <<p>>, err is "nil", "gopath"
\* (errGoPathNotSet) or "panic" for the index out of range at Gopaths[0]
NewPaths(gopath, packset) ==
    IF Len(gopath) = 0 THEN [paths |-> Nil, err |-> "gopath"]
    ELSE LET gopaths == splitAndCullPath(gopath)
         IN  IF gopaths = <<>> THEN [paths |-> Nil, err |-> "panic"]
             ELSE LET gopack == JoinPath(<<gopaths[1], GOPACKFOLDER>>)
                      gopackset == JoinPath(<<gopack, packset, SRCFOLDER>>)
                  IN  [paths |->
                          <<[Gopath |-> gopath,
                             Gopaths |-> gopaths,
                             GopackPath |-> gopack,
                             GopacksetPath |-> gopackset,
                             CombinedPath |->
                                gopath \o <<ListSeparator>> \o gopackset,
                             packset |-> packset]>>,
                       err |-> "nil"]

(***************************************************************************)
(* DVCS.Clone, dvcs.go.  The disk holds the repository path ("present"),   *)
(* does not hold it ("absent"), or holds it where os.Stat cannot reach it  *)
(* ("unreadable": no search permission on a directory above it); os.Stat   *)
(* returns nil, an error for which os.IsNotExist holds, or another error.  *)
(***************************************************************************)
Stat(state) ==
    CASE state = "present" -> "nil"
      [] state = "absent" -> "notexist"
      [] OTHER -> "permission"

\* the command of Git.Clone, Hg.Clone and Bzr.Clone
EngineClone(engine, url, destination) ==
    CASE engine = "Git" -> <<"git", "clone", url, destination>>
      [] engine = "Hg" -> <<"hg", "clone", url, destination>>
      [] OTHER -> <<"bzr", "branch", url, destination>>

\* what cmd.Run() of a clone command can return: it can fail for any
\* destination and succeed only where nothing is in the way
RunOutcomes(state) == IF state = "absent" THEN {"nil", "exit"} ELSE {"exit"}

(***************************************************************************)
(* The checked inputs: version strings written out of their parts, valid   *)
(* and invalid.                                                            *)
(***************************************************************************)
NatChars(n) == FormatUint(WordOfNat(n, intSize))

Idents == {<<"2">>, <<"1", "0">>, <<"a">>, <<"a", "b">>, <<"B">>}

Releases ==
    UNION {{Join(l, ".") : l \in [1..k -> Idents]} : k \in 0..MaxIdents}

VersionText(mj, mn, pt, rel) ==
    mj \o <<".">> \o mn \o <<".">> \o pt
    \o (IF rel = <<>> THEN <<>> ELSE <<"-">> \o rel)

\* every major, minor and patch up to MaxNum, with and without a release
NumInputs ==
    {VersionText(NatChars(i), NatChars(j), NatChars(k), r) :
        i \in 0..MaxNum, j \in 0..MaxNum, k \in 0..MaxNum,
        r \in {<<>>, <<"a">>, <<"2">>}}

\* one core with every release of up to MaxIdents identifiers
RelInputs == {VersionText(<<"1">>, <<"0">>, <<"0">>, r) : r \in Releases}

\* strings at the edges of the grammar and of the integer ranges
EdgeInputs ==
    {<<>>,
     <<"1", ".", "0">>,
     <<"0", "1", ".", "0", ".", "0">>,
     <<"1", ".", "0", ".", "0", "1">>,
     <<"x", "1", ".", "0", ".", "0">>,
     <<"1", ".", "0", ".", "0", "-">>,
     <<"1", ".", "0", ".", "0", "-", "0", "1">>,
     <<"1", ".", "0", ".", "0", "-", "a", ".", ".", "b">>,
     <<"1", ".", "0", ".", "0", "-", "1", "a">>,
     <<"1", ".", "0", ".", "0", "-", "a", "-", "b">>,
     <<"4", "2", "9", "4", "9", "6", "7", "2", "9", "5", ".", "1", "0", ".", "0", "-", "P", "r", "e", ".", "1">>,
     <<"0", ".", "4", "2", "9", "4", "9", "6", "7", "2", "9", "6", ".", "0">>,
     <<"1", ".", "0", ".", "0", "-", "9", "2", "2", "3", "3", "7", "2", "0", "3", "6", "8", "5", "4", "7", "7", "5", "8", "0", "7">>,
     <<"1", ".", "0", ".", "0", "-", "9", "2", "2", "3", "3", "7", "2", "0", "3", "6", "8", "5", "4", "7", "7", "5", "8", "0", "8">>}

\* the pairs of a base and a condition: both out of one of the three sets
InputPairs(inputs) == inputs \X inputs

(***************************************************************************)
(* State: the two version strings handed to ParseVersion, its results b    *)
(* and c, the operator and result of b.Satisfies(op, c), the text of       *)
(* b.String() and the result of parsing that text again.                   *)
(***************************************************************************)
Unset == [version |-> Nil, err |-> "unset"]
NoDep == [dep |-> Nil, err |-> "unset"]

NoOp == [op |-> 0, err |-> "unset"]

DepIdle ==
    depStr = <<>> /\ dep = NoDep /\ depText = <<>> /\ depBack = NoDep

OpIdle ==
    opStr = <<>> /\ opRes = NoOp /\ opText = <<>> /\ opBack = NoOp

\* no YAML value handed over, no Paths made, no repository touched, no
\* three versions compared
YamlIdle ==
    /\ yKind = "none" /\ yValue = [isString |-> FALSE, s |-> <<>>]
    /\ yRecv = Nil /\ yRecv0 = Nil /\ yOk = FALSE

PathsIdle ==
    /\ pGopath = <<>> /\ pPackset = <<>> /\ paths = Nil
    /\ pErr = "unset" /\ pFrames = 0

DvcsIdle ==
    /\ dvcs = Nil /\ disk = "absent" /\ diskBefore = "absent"
    /\ dCmd = Nil /\ dErr = "unset" /\ dCalls = 0

OrderIdle == oStr = <<>> /\ oVer = <<>> /\ oGt = <<>>

ExtIdle == YamlIdle /\ PathsIdle /\ DvcsIdle /\ OrderIdle

Init ==
    /\ \E inputs \in {NumInputs, RelInputs, EdgeInputs} :
          \E p \in InputPairs(inputs) : bStr = p[1] /\ cStr = p[2]
    /\ b = Unset /\ c = Unset
    /\ op = 0 /\ ok = FALSE
    /\ text = <<>> /\ back = Unset
    /\ pc = "input"
    /\ DepIdle /\ OpIdle /\ ExtIdle

\* version, err := ParseVersion(str), for the base and the condition
DoParseVersion ==
    /\ pc = "input"
    /\ b' = ParseVersion(bStr)
    /\ c' = ParseVersion(cStr)
    /\ pc' = "parsed"
    /\ UNCHANGED <<bStr, cStr, op, ok, text, back, depVars, opVars, extVars>>

\* ok := b.Satisfies(op, c) on two parsed versions
DoSatisfies ==
    /\ pc = "parsed"
    /\ b.err = "nil" /\ c.err = "nil"
    /\ \E o \in Ops :
          /\ op' = o
          /\ ok' = Satisfies(b.version[1], o, c.version[1])
    /\ pc' = "compared"
    /\ UNCHANGED <<bStr, cStr, b, c, text, back, depVars, opVars, extVars>>

\* text := b.String() on a parsed version
DoString ==
    /\ pc = "parsed"
    /\ b.err = "nil"
    /\ text' = VersionString(b.version[1])
    /\ pc' = "printed"
    /\ UNCHANGED <<bStr, cStr, b, c, op, ok, back, depVars, opVars, extVars>>

\* back := ParseVersion(text)
DoReparse ==
    /\ pc = "printed"
    /\ back' = ParseVersion(text)
    /\ pc' = "reparsed"
    /\ UNCHANGED <<bStr, cStr, b, c, op, ok, text, depVars, opVars, extVars>>

Next == DoParseVersion \/ DoSatisfies \/ DoString \/ DoReparse

Spec == Init /\ [][Next]_vars

(***************************************************************************)
(* Dependency lines: a name and up to MaxTokens tokens joined by single    *)
(* spaces; the tokens are constraints (valid, malformed, and accepted by   *)
(* rgxConstraint but not by ParseVersion), locators, and the empty token   *)
(* a doubled or trailing space makes.                                      *)
(***************************************************************************)
DepNames ==
    {<<"n", "a", "m", "e">>, <<>>, <<"=", "1", ".", "0", ".", "0">>,
     <<"1", "2", "3", "4">>}

DepTokens ==
    {<<"1", ".", "2", ".", "3">>,
     <<">", "=", "1", ".", "0", ".", "0", "-", "p", "r", "e">>,
     <<"~", "3", ".", "2", ".", "1", "-", "d", "e", "v">>,
     <<"<", "=", "9", ".", "1", "0", ".", "4", "2", "9", "4", "9", "6", "7", "2", "9", "5", "-", "A", ".", "2">>,
     <<"1", ".", "0", "2", ".", "3">>,
     <<"1", ".", "2", ".", "3", "-", "p", "r", "e", "-", "x">>,
     <<"~", "=", "3", ".", "2", ".", "5">>,
     <<"1", "0", ".", "0", ".", "0">>,
     <<"h", "g", ":", "h", "g", ".", "i", "o">>,
     <<"G", "I", "T", ":", "a", "/", "b", "?", "x", "=", "1">>,
     <<"a", "s", "d", "f">>, <<>>}

\* the lines of the name nm and k tokens
DepInputs(nm, k) == {Join(<<nm>> \o l, " ") : l \in [1..k -> DepTokens]}

VersionIdle ==
    /\ bStr = <<>> /\ cStr = <<>> /\ b = Unset /\ c = Unset
    /\ op = 0 /\ ok = FALSE /\ text = <<>> /\ back = Unset

InitDep ==
    /\ \E nm \in DepNames, k \in 0..MaxTokens : depStr \in DepInputs(nm, k)
    /\ dep = NoDep /\ depText = <<>> /\ depBack = NoDep
    /\ pc = "depInput"
    /\ VersionIdle /\ OpIdle /\ ExtIdle

\* dep, err := ParseDependency(str)
DoParseDependency ==
    /\ pc = "depInput"
    /\ dep' = ParseDependency(depStr)
    /\ pc' = IF dep'.err = "panic" THEN "panicked" ELSE "depParsed"
    /\ UNCHANGED <<depStr, depText, depBack, versionVars, opVars, extVars>>

\* text := dep.String() on a parsed dependency
DoDependencyString ==
    /\ pc = "depParsed"
    /\ dep.err = "nil"
    /\ depText' = DependencyString(dep.dep[1])
    /\ pc' = "depPrinted"
    /\ UNCHANGED <<depStr, dep, depBack, versionVars, opVars, extVars>>

\* back := ParseDependency(text)
DoDependencyReparse ==
    /\ pc = "depPrinted"
    /\ depBack' = ParseDependency(depText)
    /\ pc' = IF depBack'.err = "panic" THEN "panicked" ELSE "depReparsed"
    /\ UNCHANGED <<depStr, dep, depText, versionVars, opVars, extVars>>

NextDep == DoParseDependency \/ DoDependencyString \/ DoDependencyReparse

SpecDep == InitDep /\ [][NextDep]_vars

(***************************************************************************)
(* Version strings around the grammar and around the range of a uint:      *)
(* valid versions with every insertion, removal and replacement of one     *)
(* character, and versions whose major, minor and patch lie on both sides  *)
(* of 2^32 - 1.  The condition is a fixed valid version.                   *)
(***************************************************************************)
SeedInputs ==
    {<<"4", ".", "2", ".", "1">>,
     <<"4", ".", "2", ".", "1", "-", "1">>,
     <<"4", ".", "2", ".", "1", "-", "p", "r", "e">>,
     <<"4", ".", "2", ".", "1", "-", "p", "r", "e", ".", "1">>}

EditChars == {"0", "1", "a", ".", "-", " "}

Edits(s) ==
    {SubSeq(s, 1, i) \o <<ch>> \o SubSeq(s, i + 1, Len(s)) :
        i \in 0..Len(s), ch \in EditChars}
    \cup {SubSeq(s, 1, i - 1) \o SubSeq(s, i + 1, Len(s)) : i \in 1..Len(s)}
    \cup {SubSeq(s, 1, i - 1) \o <<ch>> \o SubSeq(s, i + 1, Len(s)) :
              i \in 1..Len(s), ch \in EditChars}

NearInputs == SeedInputs \cup UNION {Edits(s) : s \in SeedInputs}

BigNums ==
    {<<"0">>,
     <<"4", "2", "9", "4", "9", "6", "7", "2", "9", "5">>,
     <<"4", "2", "9", "4", "9", "6", "7", "2", "9", "6">>,
     <<"4", "2", "9", "4", "9", "6", "7", "3", "0", "0">>,
     <<"1", "0", "0", "0", "0", "0", "0", "0", "0", "0", "0">>,
     <<"1", "8", "4", "4", "6", "7", "4", "4", "0", "7", "3", "7", "0", "9", "5", "5", "1", "6", "1", "6">>}

BigInputs ==
    {VersionText(mj, mn, pt, r) :
        mj \in BigNums, mn \in BigNums, pt \in BigNums,
        r \in {<<>>, <<"a">>}}

InitParse ==
    /\ bStr \in NearInputs \cup BigInputs
    /\ cStr = <<"1", ".", "0", ".", "0">>
    /\ b = Unset /\ c = Unset
    /\ op = 0 /\ ok = FALSE
    /\ text = <<>> /\ back = Unset
    /\ pc = "input"
    /\ DepIdle /\ OpIdle /\ ExtIdle

SpecParse == InitParse /\ [][Next]_vars

(***************************************************************************)
(* Dependencies built by hand, as a caller or a test builds them: with or  *)
(* without a name, up to MaxCons constraints (every entry and its version  *)
(* set, the operator possibly the zero operator) and with or without a     *)
(* URL.  They are printed and the text is parsed.                          *)
(***************************************************************************)
BuiltVersion(mj, mn, pt, rel) ==
    [Major |-> WordOfNat(mj, intSize), Minor |-> WordOfNat(mn, intSize),
     Patch |-> WordOfNat(pt, intSize), Release |-> rel]

BuiltVersions ==
    {BuiltVersion(1, 2, 3, <<"p", "r", "e">>), BuiltVersion(3, 2, 1, <<>>),
     BuiltVersion(0, 0, 0, <<"2">>)}

BuiltConstraints ==
    {<<[Operator |-> o, Version |-> <<v>>]>> :
        o \in {0, LessThan, GreaterEqual, ApproxGreater}, v \in BuiltVersions}

BuiltDeps(k) ==
    {[Name |-> nm, Constraints |-> cons, URL |-> url] :
        nm \in {<<>>, <<"n", "a", "m", "e">>},
        cons \in [1..k -> BuiltConstraints],
        url \in {<<>>, <<"h", "g", ":", "h", "g", ".", "i", "o">>}}

InitBuilt ==
    /\ depStr = <<>>
    /\ \E k \in 0..MaxCons : \E d \in BuiltDeps(k) :
          dep = [dep |-> <<d>>, err |-> "nil"]
    /\ depText = <<>> /\ depBack = NoDep
    /\ pc = "depParsed"
    /\ VersionIdle /\ OpIdle /\ ExtIdle

NextBuilt == DoDependencyString \/ DoDependencyReparse

SpecBuilt == InitBuilt /\ [][NextBuilt]_vars

(***************************************************************************)
(* The YAML setters: a receiver (the zero value or one built by hand) is   *)
(* handed a value that is a string (valid or not) or no string.            *)
(***************************************************************************)
ZeroDependency == [Name |-> <<>>, Constraints |-> <<>>, URL |-> <<>>]

NotAString == [isString |-> FALSE, s |-> <<>>]

YamlString(str) == [isString |-> TRUE, s |-> str]

CoreIdle == VersionIdle /\ DepIdle /\ OpIdle

InitYaml ==
    /\ \/ /\ yKind = "version"
          /\ yRecv0 \in {ZeroVersion} \cup BuiltVersions
          /\ \/ yValue = NotAString
             \/ \E str \in NumInputs \cup EdgeInputs : yValue = YamlString(str)
       \/ /\ yKind = "dependency"
          /\ yRecv0 \in {ZeroDependency} \cup BuiltDeps(1)
          /\ \/ yValue = NotAString
             \/ \E nm \in DepNames, k \in 0..1 : \E str \in DepInputs(nm, k) :
                   yValue = YamlString(str)
    /\ yRecv = yRecv0
    /\ yOk = FALSE
    /\ pc = "yamlInput"
    /\ CoreIdle /\ PathsIdle /\ DvcsIdle /\ OrderIdle

\* the setter returns r.ok and leaves the receiver r.recv, or panics
YamlReturn(r) ==
    /\ yOk' = r.ok
    /\ yRecv' = r.recv
    /\ pc' = IF r.panic THEN "yamlPanicked" ELSE "yamlDone"

\* ok := v.SetYAML("", value)
DoVersionSetYAML ==
    /\ pc = "yamlInput" /\ yKind = "version"
    /\ YamlReturn(VersionSetYAML(yRecv, yValue))
    /\ UNCHANGED <<yKind, yValue, yRecv0, versionVars, depVars, opVars,
                   pathVars, dvcsVars, orderVars>>

\* ok := d.SetYAML("", value)
DoDependencySetYAML ==
    /\ pc = "yamlInput" /\ yKind = "dependency"
    /\ YamlReturn(DependencySetYAML(yRecv, yValue))
    /\ UNCHANGED <<yKind, yValue, yRecv0, versionVars, depVars, opVars,
                   pathVars, dvcsVars, orderVars>>

NextYaml == DoVersionSetYAML \/ DoDependencySetYAML

SpecYaml == InitYaml /\ [][NextYaml]_vars

(***************************************************************************)
(* Paths: NewPaths on a path list of up to MaxEntries entries (empty,      *)
(* absolute, relative, with a trailing slash) and a packset, then          *)
(* SetPackset and Packset on the result.  A call of Packset adds a frame   *)
(* to the stack, which holds MaxFrames of them.                            *)
(***************************************************************************)
PathEntries ==
    {<<>>, <<"/", "a">>, <<"b">>, <<"/", "a", "/", "c", "/">>}

Packsets == {<<>>, <<"p", "s">>, <<".", ".">>}

PathLists(k) == {Join(l, ListSeparator) : l \in [1..k -> PathEntries]}

InitPaths ==
    /\ \E k \in 1..MaxEntries : pGopath \in PathLists(k)
    /\ pPackset \in Packsets
    /\ paths = Nil /\ pErr = "unset" /\ pFrames = 0
    /\ pc = "pathsInput"
    /\ CoreIdle /\ YamlIdle /\ DvcsIdle /\ OrderIdle

\* p, err := NewPaths(gopath, packset)
DoNewPaths ==
    /\ pc = "pathsInput"
    /\ LET r == NewPaths(pGopath, pPackset)
       IN  /\ paths' = r.paths
           /\ pErr' = r.err
           /\ pc' = IF r.err = "panic" THEN "pathsPanicked"
                    ELSE IF r.err = "nil" THEN "pathsReady"
                    ELSE "pathsFailed"
    /\ UNCHANGED <<pGopath, pPackset, pFrames, versionVars, depVars, opVars,
                   yamlVars, dvcsVars, orderVars>>

\* p.SetPackset(packset)
DoSetPackset ==
    /\ pc = "pathsReady"
    /\ \E ps \in Packsets :
          /\ pPackset' = ps
          /\ paths' = <<SetPackset(paths[1], ps)>>
    /\ UNCHANGED <<pc, pGopath, pErr, pFrames, versionVars, depVars, opVars,
                   yamlVars, dvcsVars, orderVars>>

\* p.Packset(): the body is the call p.Packset() again, one more frame, until
\* the stack is full and the runtime ends the program
DoPackset ==
    /\ pc \in {"pathsReady", "packset"}
    /\ IF pFrames < MaxFrames
       THEN pFrames' = pFrames + 1 /\ pc' = "packset"
       ELSE pFrames' = pFrames /\ pc' = "stackOverflow"
    /\ UNCHANGED <<pGopath, pPackset, paths, pErr, versionVars, depVars,
                   opVars, yamlVars, dvcsVars, orderVars>>

NextPaths == DoNewPaths \/ DoSetPackset \/ DoPackset

SpecPaths == InitPaths /\ [][NextPaths]_vars

(***************************************************************************)
(* Repositories: a DVCS of one of the three engines and a repository path  *)
(* in each of the three states of the disk is cloned up to MaxCalls times. *)
(***************************************************************************)
Engines == {"Git", "Hg", "Bzr"}

RepoPaths == {"/tmp/dvcsClone", "repo", "src/repo"}

RepoUrls == {"/tmp/dvcsOrigin", "https://host/repo"}

InitDvcs ==
    /\ \E e \in Engines, r \in RepoPaths :
          dvcs = <<[Repository |-> r, engine |-> e]>>
    /\ disk \in {"absent", "present", "unreadable"}
    /\ diskBefore = disk
    /\ dCmd = Nil /\ dErr = "unset" /\ dCalls = 0
    /\ pc = "dvcs"
    /\ CoreIdle /\ YamlIdle /\ PathsIdle /\ OrderIdle

\* err := d.Clone(url)
DoClone ==
    /\ pc = "dvcs"
    /\ dCalls < MaxCalls
    /\ dCalls' = dCalls + 1
    /\ diskBefore' = disk
    /\ \E url \in RepoUrls :
          IF Stat(disk) = "nil"
          THEN dCmd' = Nil /\ dErr' = "nil" /\ disk' = disk
          ELSE /\ dCmd' = <<EngineClone(dvcs[1].engine, url,
                                        dvcs[1].Repository)>>
               /\ \E out \in RunOutcomes(disk) :
                     /\ dErr' = out
                     /\ disk' = IF out = "nil" THEN "present" ELSE disk
    /\ UNCHANGED <<pc, dvcs, versionVars, depVars, opVars, yamlVars,
                   pathVars, orderVars>>

NextDvcs == DoClone

SpecDvcs == InitDvcs /\ [][NextDvcs]_vars

(***************************************************************************)
(* Order: three versions are parsed and each is compared with each by      *)
(* GreaterThan.  The releases are the empty one, numeric, alphanumeric and *)
(* multi-identifier ones and the two at the edge of ParseInt's range.      *)
(***************************************************************************)
OrderReleases ==
    {<<>>, <<"2">>, <<"1", "0">>, <<"a">>, <<"a", "b">>, <<"B">>,
     <<"a", ".", "2">>, <<"a", ".", "a">>, <<"2", ".", "a">>,
     <<"9", "2", "2", "3", "3", "7", "2", "0", "3", "6", "8", "5", "4", "7", "7", "5", "8", "0", "7">>,
     <<"9", "2", "2", "3", "3", "7", "2", "0", "3", "6", "8", "5", "4", "7", "7", "5", "8", "0", "8">>}

OrderInputs ==
    {VersionText(<<"1">>, mn, <<"0">>, r) :
        mn \in {<<"0">>, <<"1">>}, r \in OrderReleases}

InitOrder ==
    /\ oStr \in [1..3 -> OrderInputs]
    /\ oVer = <<>> /\ oGt = <<>>
    /\ pc = "orderInput"
    /\ CoreIdle /\ YamlIdle /\ PathsIdle /\ DvcsIdle

\* version, err := ParseVersion(str), for each of the three strings
DoParseThree ==
    /\ pc = "orderInput"
    /\ oVer' = [i \in 1..3 |-> ParseVersion(oStr[i])]
    /\ pc' = "orderParsed"
    /\ UNCHANGED <<oStr, oGt, versionVars, depVars, opVars, yamlVars,
                   pathVars, dvcsVars>>

\* x.Satisfies(GreaterThan, y) for each x and y of the three versions
DoCompareThree ==
    /\ pc = "orderParsed"
    /\ \A i \in 1..3 : oVer[i].err = "nil"
    /\ oGt' = [i \in 1..3 |-> [j \in 1..3 |->
                  Satisfies(oVer[i].version[1], GreaterThan,
                            oVer[j].version[1])]]
    /\ pc' = "ordered"
    /\ UNCHANGED <<oStr, oVer, versionVars, depVars, opVars, yamlVars,
                   pathVars, dvcsVars>>

NextOrder == DoParseThree \/ DoCompareThree

SpecOrder == InitOrder /\ [][NextOrder]_vars

(***************************************************************************)
(* Operators: every string of up to MaxOpLen characters of the operator    *)
(* tokens and a digit is handed to ParseOp; the operator returned (the     *)
(* zero operator with an error) is printed and the text parsed again.      *)
(***************************************************************************)
OpChars == {"=", "!", ">", "<", "~", "1"}

OpInputs == UNION {[1..k -> OpChars] : k \in 0..MaxOpLen}

InitOp ==
    /\ opStr \in OpInputs
    /\ opRes = NoOp /\ opText = <<>> /\ opBack = NoOp
    /\ pc = "opInput"
    /\ VersionIdle /\ DepIdle /\ ExtIdle

\* op, err := ParseOp(str)
DoParseOp ==
    /\ pc = "opInput"
    /\ opRes' = ParseOp(opStr)
    /\ pc' = "opParsed"
    /\ UNCHANGED <<opStr, opText, opBack, versionVars, depVars, extVars>>

\* text := op.String()
DoOpString ==
    /\ pc = "opParsed"
    /\ opText' = OpString(opRes.op)
    /\ pc' = "opPrinted"
    /\ UNCHANGED <<opStr, opRes, opBack, versionVars, depVars, extVars>>

\* back, err := ParseOp(text)
DoOpReparse ==
    /\ pc = "opPrinted"
    /\ opBack' = ParseOp(opText)
    /\ pc' = "opReparsed"
    /\ UNCHANGED <<opStr, opRes, opText, versionVars, depVars, extVars>>

NextOp == DoParseOp \/ DoOpString \/ DoOpReparse

SpecOp == InitOp /\ [][NextOp]_vars

(***************************************************************************)
(* Properties.                                                             *)
(***************************************************************************)
\* the parsed base and condition versions, and the parsed dependencies
baseV == b.version[1]
condV == c.version[1]
backV == back.version[1]
depV == dep.dep[1]
depBackV == depBack.dep[1]

SameCore(x, y) ==
    x.Major = y.Major /\ x.Minor = y.Minor /\ x.Patch = y.Patch

\* the first position at which two identifier lists differ, 0 if there is
\* none within the shorter list
FirstDiff(bl, cl) ==
    LET m == IF Len(bl) < Len(cl) THEN Len(bl) ELSE Len(cl)
    IN  IF \E i \in 1..m : bl[i] # cl[i]
        THEN CHOOSE i \in 1..m :
                bl[i] # cl[i] /\ \A j \in 1..(i - 1) : bl[j] = cl[j]
        ELSE 0

\* the two kinds of identifier of the release grammar
IsNumericIdent(s) == Len(s) >= 1 /\ \A i \in 1..Len(s) : IsDigit(s[i])
IsAlnumIdent(s) == Len(s) >= 1 /\ IsAlpha(s[1])

\* x > y for the integers two numeric identifiers write (no leading zero)
NumericGreater(x, y) ==
    \/ Len(x) > Len(y)
    \/ /\ Len(x) = Len(y)
       /\ \E k \in 1..Len(x) :
             /\ \A j \in 1..(k - 1) : x[j] = y[j]
             /\ DigitVal(x[k]) > DigitVal(y[k])

\* x has the larger byte where x and y first differ, or y is a proper
\* prefix of x
BytesGreater(x, y) ==
    \/ \E k \in 1..Len(x) :
          /\ k <= Len(y)
          /\ \A j \in 1..(k - 1) : x[j] = y[j]
          /\ ByteOf(x[k]) > ByteOf(y[k])
    \/ Len(y) < Len(x) /\ SubSeq(x, 1, Len(y)) = y

\* both releases are set, of one core, and first differ at an identifier
ComparedReleases ==
    /\ pc = "compared"
    /\ SameCore(baseV, condV)
    /\ baseV.Release # <<>> /\ condV.Release # <<>>

BaseIdents == Split(baseV.Release, ".")
CondIdents == Split(condV.Release, ".")
DiffAt == FirstDiff(BaseIdents, CondIdents)

\* C1: a version string ParseVersion accepts, printed with String and
\* parsed again, parses without error to a Version with the same Major,
\* Minor, Patch and Release.
C1_VersionRoundTrip ==
    pc = "reparsed" =>
        /\ back.err = "nil"
        /\ back.version # Nil
        /\ backV.Major = baseV.Major
        /\ backV.Minor = baseV.Minor
        /\ backV.Patch = baseV.Patch
        /\ backV.Release = baseV.Release

\* a round trip of a version with the largest major and a release
C1_Witness ==
    /\ pc = "reparsed"
    /\ baseV.Major = <<65535, 65535>>
    /\ baseV.Minor # ZeroWord(intSize)
    /\ Len(Split(baseV.Release, ".")) = 2

\* C2: a dependency line ParseDependency accepts, printed with String and
\* parsed again, parses without error to a Dependency with the same Name,
\* the same Constraints (operators and versions, in order) and the same URL.
C2_DependencyRoundTrip ==
    pc = "depReparsed" =>
        /\ depBack.err = "nil"
        /\ depBack.dep # Nil
        /\ depBackV.Name = depV.Name
        /\ Len(depBackV.Constraints) = Len(depV.Constraints)
        /\ \A i \in 1..Len(depV.Constraints) :
              /\ depBackV.Constraints[i] # Nil
              /\ depBackV.Constraints[i][1].Operator
                    = depV.Constraints[i][1].Operator
              /\ depBackV.Constraints[i][1].Version
                    = depV.Constraints[i][1].Version
        /\ depBackV.URL = depV.URL

\* a round trip of a line with two constraints, the first written without
\* an operator so that the printed line differs from the input, and a URL
C2_Witness ==
    /\ pc = "depReparsed"
    /\ Len(depV.Constraints) = 2
    /\ depV.Constraints[1][1].Operator = Equal
    /\ depV.Constraints[2][1].Operator # Equal
    /\ depV.URL # <<>>
    /\ depText # depStr

\* C3: with equal Major, Minor and Patch, a version without a release is
\* GreaterThan one with any release, and the one with the release is
\* LessThan the one without.
C3_PrereleasePrecedence ==
    (pc = "compared" /\ SameCore(baseV, condV)) =>
        /\ (op = GreaterThan /\ baseV.Release = <<>> /\ condV.Release # <<>>)
              => ok
        /\ (op = LessThan /\ baseV.Release # <<>> /\ condV.Release = <<>>)
              => ok

\* C4 as stated: ApproxGreater is false whenever Major or Minor differ.
C4_ApproxScopeAsStated ==
    ( /\ pc = "compared"
      /\ op = ApproxGreater
      /\ (baseV.Major # condV.Major \/ baseV.Minor # condV.Minor) )
    => ~ok

\* C4 amended: ApproxGreater is false whenever Major differs or the base's
\* Minor is lower, and true for the same Major with a higher Minor.
C4_ApproxScope ==
    (pc = "compared" /\ op = ApproxGreater) =>
        /\ (baseV.Major # condV.Major \/ Lt(baseV.Minor, condV.Minor)) => ~ok
        /\ (baseV.Major = condV.Major /\ Gt(baseV.Minor, condV.Minor)) => ok

\* ApproxGreater refused to a base of a higher major version
C4_Witness ==
    /\ pc = "compared"
    /\ op = ApproxGreater
    /\ Gt(baseV.Major, condV.Major)
    /\ ~ok

\* C5: ApproxGreater is GreaterEqual restricted to an equal Major.
C5_ApproxIsGreaterEqualSameMajor ==
    (pc = "compared" /\ op = ApproxGreater) =>
        ok = ( /\ baseV.Major = condV.Major
               /\ Satisfies(baseV, GreaterEqual, condV) )

\* ApproxGreater granted to a base of the same major and a higher minor
C5_Witness ==
    /\ pc = "compared"
    /\ op = ApproxGreater
    /\ baseV.Major = condV.Major
    /\ Gt(baseV.Minor, condV.Minor)
    /\ Lt(baseV.Patch, condV.Patch)
    /\ ok

\* C6: where the releases first differ at an alphanumeric identifier of
\* the base and a numeric one of the condition, the base is GreaterThan
\* the condition; with the kinds the other way round it is not.
C6_AlphanumericAboveNumeric ==
    (ComparedReleases /\ op = GreaterThan /\ DiffAt # 0) =>
        /\ ( /\ IsAlnumIdent(BaseIdents[DiffAt])
              /\ IsNumericIdent(CondIdents[DiffAt]) ) => ok
        /\ ( /\ IsNumericIdent(BaseIdents[DiffAt])
              /\ IsAlnumIdent(CondIdents[DiffAt]) ) => ~ok

\* C7: where the releases first differ at two numeric identifiers, the
\* base is GreaterThan the condition exactly when its identifier is the
\* larger integer.
C7_NumericIdentifiersAsIntegers ==
    ( /\ ComparedReleases /\ op = GreaterThan /\ DiffAt # 0
      /\ IsNumericIdent(BaseIdents[DiffAt])
      /\ IsNumericIdent(CondIdents[DiffAt]) )
    => ok = NumericGreater(BaseIdents[DiffAt], CondIdents[DiffAt])

\* C8: where the releases first differ at two alphanumeric identifiers,
\* the base is GreaterThan the condition exactly when its identifier has
\* the larger byte at the first differing byte or extends the other.
C8_AlphanumericIdentifiersByBytes ==
    ( /\ ComparedReleases /\ op = GreaterThan /\ DiffAt # 0
      /\ IsAlnumIdent(BaseIdents[DiffAt])
      /\ IsAlnumIdent(CondIdents[DiffAt]) )
    => ok = BytesGreater(BaseIdents[DiffAt], CondIdents[DiffAt])

\* C9: a base whose release extends the condition's non-empty identifier
\* list is GreaterThan the condition and not LessThan it.
C9_LongerReleaseWins ==
    ( /\ ComparedReleases
      /\ Len(CondIdents) < Len(BaseIdents)
      /\ SubSeq(BaseIdents, 1, Len(CondIdents)) = CondIdents )
    => /\ op = GreaterThan => ok
       /\ op = LessThan => ~ok

\* C10: a version of a lower Major is LessThan one of a higher Major, and
\* the one of the higher Major is GreaterThan it, whatever the rest.
C10_MajorOrdering ==
    pc = "compared" =>
        /\ (op = LessThan /\ Lt(baseV.Major, condV.Major)) => ok
        /\ (op = GreaterThan /\ Gt(baseV.Major, condV.Major)) => ok

\* a lower major that is LessThan although its minor and patch are higher
\* and only the other version has a release
C10_Witness ==
    /\ pc = "compared"
    /\ op = LessThan
    /\ Lt(baseV.Major, condV.Major)
    /\ Gt(baseV.Minor, condV.Minor)
    /\ Gt(baseV.Patch, condV.Patch)
    /\ baseV.Release = <<>> /\ condV.Release # <<>>
    /\ ok

\* C11: GreaterEqual is GreaterThan or Equal, and LessEqual is LessThan or
\* Equal, on parsed versions.
C11_OrEqualIsStrictOrEqual ==
    pc = "compared" =>
        /\ op = GreaterEqual =>
              ok = ( \/ Satisfies(baseV, GreaterThan, condV)
                     \/ Satisfies(baseV, Equal, condV) )
        /\ op = LessEqual =>
              ok = ( \/ Satisfies(baseV, LessThan, condV)
                     \/ Satisfies(baseV, Equal, condV) )

\* GreaterEqual granted to two identical versions with a release of two
\* identifiers, where GreaterThan is refused
C11_Witness ==
    /\ pc = "compared"
    /\ op = GreaterEqual
    /\ SameCore(baseV, condV)
    /\ baseV.Release = condV.Release
    /\ Len(Split(baseV.Release, ".")) = 2
    /\ ~Satisfies(baseV, GreaterThan, condV)
    /\ ok

\* C12: Equal holds exactly when Major, Minor and Patch are equal and the
\* releases are the same bytes; NotEqual is its negation.
C12_EqualIsIdentity ==
    pc = "compared" =>
        /\ op = Equal =>
              ok = ( /\ WordCmp(baseV.Major, condV.Major) = 0
                     /\ WordCmp(baseV.Minor, condV.Minor) = 0
                     /\ WordCmp(baseV.Patch, condV.Patch) = 0
                     /\ Len(baseV.Release) = Len(condV.Release)
                     /\ \A i \in 1..Len(baseV.Release) :
                           ByteOf(baseV.Release[i]) = ByteOf(condV.Release[i]) )
        /\ op = NotEqual => ok = ~Satisfies(baseV, Equal, condV)

\* NotEqual granted to two versions that differ in the release alone
C12_Witness ==
    /\ pc = "compared"
    /\ op = NotEqual
    /\ SameCore(baseV, condV)
    /\ baseV.Release # <<>> /\ condV.Release # <<>>
    /\ baseV.Release # condV.Release
    /\ ok

\* C13: ParseOp of the text of each of the seven operators gives that
\* operator and no error; the zero operator prints as the empty string;
\* ParseOp of any string that is not one of the seven tokens, the empty
\* string included, gives an error and the zero operator.
C13_ParseOpInvertsString ==
    /\ pc \in {"opParsed", "opPrinted", "opReparsed"} =>
          IF opStr \in {<<"=">>, <<"!", "=">>, <<">">>, <<"<">>,
                        <<">", "=">>, <<"<", "=">>, <<"~">>}
          THEN opRes.err = "nil" /\ opRes.op \in Ops
          ELSE opRes.err # "nil" /\ opRes.op = 0
    /\ pc \in {"opPrinted", "opReparsed"} =>
          (opRes.op = 0 => opText = <<>>)
    /\ pc = "opReparsed" =>
          IF opRes.op \in Ops
          THEN opBack.err = "nil" /\ opBack.op = opRes.op
          ELSE opBack.err # "nil" /\ opBack.op = 0

\* GreaterEqual, a token of two characters, printed and parsed again
C13_Witness ==
    /\ pc = "opReparsed"
    /\ opRes.op = GreaterEqual
    /\ opText = <<">", "=">>
    /\ opBack.op = GreaterEqual

\* The version grammar read from the left, one character at a time: the
\* position after the element that starts at i, or 0 when there is none.
RECURSIVE SkipDigits(_, _)
SkipDigits(s, i) ==
    IF i <= Len(s) /\ IsDigit(s[i]) THEN SkipDigits(s, i + 1) ELSE i

RECURSIVE SkipAlnum(_, _)
SkipAlnum(s, i) ==
    IF i <= Len(s) /\ (IsAlpha(s[i]) \/ IsDigit(s[i]))
    THEN SkipAlnum(s, i + 1) ELSE i

ScanNum(s, i) ==
    IF i = 0 \/ i > Len(s) THEN 0
    ELSE IF s[i] = "0" THEN i + 1
    ELSE IF IsDigit(s[i]) THEN SkipDigits(s, i + 1)
    ELSE 0

ScanChar(s, i, ch) ==
    IF i # 0 /\ i <= Len(s) /\ s[i] = ch THEN i + 1 ELSE 0

ScanIdent(s, i) ==
    IF i > Len(s) THEN 0
    ELSE IF IsAlpha(s[i]) THEN SkipAlnum(s, i + 1)
    ELSE IF IsDigit(s[i]) /\ s[i] # "0" THEN SkipDigits(s, i + 1)
    ELSE 0

RECURSIVE ScanIdents(_, _)
ScanIdents(s, i) ==
    LET j == ScanIdent(s, i)
    IN  IF j = 0 THEN 0
        ELSE IF j = Len(s) + 1 THEN j
        ELSE IF s[j] = "." THEN ScanIdents(s, j + 1)
        ELSE 0

InGrammar(s) ==
    LET e == ScanNum(s, ScanChar(s, ScanNum(s, ScanChar(s, ScanNum(s, 1), ".")), "."))
    IN  /\ e # 0
        /\ \/ e = Len(s) + 1
           \/ ScanChar(s, e, "-") # 0 /\ ScanIdents(s, e + 1) # 0

\* C14: ParseVersion returns an error for every string that is not, from
\* its first to its last character, major.minor.patch[-release].
C14_OnlyFullMatches ==
    pc # "input" => (~InGrammar(bStr) => b.err # "nil")

\* a leading zero in the major version is refused as a format error
C14_Witness ==
    /\ pc = "parsed"
    /\ bStr = <<"0", "4", ".", "2", ".", "1">>
    /\ b.err = "format"

\* The decimal digits d (no leading zero) are a number of at most 2^32 - 1.
MaxUintText == <<"4", "2", "9", "4", "9", "6", "7", "2", "9", "5">>

FitsUint(d) ==
    \/ Len(d) < Len(MaxUintText)
    \/ /\ Len(d) = Len(MaxUintText)
       /\ \/ d = MaxUintText
          \/ \E i \in 1..Len(d) :
                /\ DigitVal(d[i]) < DigitVal(MaxUintText[i])
                /\ \A j \in 1..(i - 1) : d[j] = MaxUintText[j]

CoreNums(s) ==
    LET dash == FirstIndex(s, "-")
    IN  Split(IF dash = 0 THEN s ELSE SubSeq(s, 1, dash - 1), ".")

\* C15: a string of the version grammar parses when major, minor and patch
\* are all at most 4294967295, and fails with the range error, not the
\* format error, when one of them is larger.
C15_OverflowIsRangeError ==
    (pc # "input" /\ InGrammar(bStr)) =>
        IF \A k \in 1..3 : FitsUint(CoreNums(bStr)[k])
        THEN b.err = "nil"
        ELSE b.err = "range"

\* a patch of 2^32 after a major and minor of 2^32 - 1
C15_Witness ==
    /\ pc = "parsed"
    /\ CoreNums(bStr) = <<MaxUintText, MaxUintText,
                          <<"4", "2", "9", "4", "9", "6", "7", "2", "9", "6">>>>
    /\ b.err = "range"

\* C16: whenever ParseVersion returns an error, the Version pointer it
\* returns is nil.
C16_NoPartialVersion ==
    pc # "input" => (b.err # "nil" => b.version = Nil)

\* C17: ParseDependency returns for every input, either a Dependency and no
\* error or no Dependency and an error; it never aborts the program.
C17_AlwaysReturns ==
    pc # "depInput" =>
        /\ dep.err # "panic"
        /\ (dep.err = "nil") <=> (dep.dep # Nil)

\* the name grammar: a letter, then one or more letters, digits, - or _
MatchName(s) ==
    /\ Len(s) >= 2
    /\ IsAlpha(s[1])
    /\ \A i \in 2..Len(s) : IsAlpha(s[i]) \/ IsDigit(s[i]) \/ s[i] \in {"-", "_"}

\* The token t is an operator token, or nothing, followed by a string that
\* ParseVersion accepts; TokenOp and TokenVersion are its two parts (no
\* operator token holds a digit and a version starts with one).
IsOpVersion(t) ==
    \E o \in {<<>>, <<"=">>, <<"!", "=">>, <<">">>, <<"<">>, <<">", "=">>,
               <<"<", "=">>, <<"~">>} :
        /\ Len(t) > Len(o)
        /\ SubSeq(t, 1, Len(o)) = o
        /\ ParseVersion(SubSeq(t, Len(o) + 1, Len(t))).err = "nil"

TokenOp(t) ==
    IF IsDigit(t[1]) THEN Equal
    ELSE IF IsDigit(t[2]) THEN ParseOp(SubSeq(t, 1, 1)).op
    ELSE ParseOp(SubSeq(t, 1, 2)).op

TokenVersion(t) ==
    IF IsDigit(t[1]) THEN ParseVersion(t).version
    ELSE IF IsDigit(t[2]) THEN ParseVersion(Tail(t)).version
    ELSE ParseVersion(Tail(Tail(t))).version

\* C18: a line of a valid name and tokens that are each an optional operator
\* and a version ParseVersion accepts is parsed into the constraints with those
\* operators and versions, in order.
C18_ConstraintTokensAreVersions ==
    pc = "depParsed" =>
        LET parts == Split(depStr, " ")
            toks  == Tail(parts)
        IN  (MatchName(parts[1]) /\ \A k \in 1..Len(toks) : IsOpVersion(toks[k]))
            => /\ dep.err = "nil"
               /\ Len(dep.dep[1].Constraints) = Len(toks)
               /\ \A k \in 1..Len(toks) :
                     /\ dep.dep[1].Constraints[k] # Nil
                     /\ dep.dep[1].Constraints[k][1].Operator = TokenOp(toks[k])
                     /\ dep.dep[1].Constraints[k][1].Version
                           = TokenVersion(toks[k])

\* C19: ParseDependency fails with the name error for every line whose
\* first token is not of the name grammar.
C19_NameIsValidated ==
    (pc = "depParsed" /\ depStr # <<>>) =>
        (~MatchName(Split(depStr, " ")[1]) => dep.err = "name")

\* C20: ParseDependency of the empty string fails with the empty-input
\* error that ParseVersion gives for the empty string.
C20_EmptyInputError ==
    (pc = "depParsed" /\ depStr = <<>>) =>
        /\ dep.err = ParseVersion(<<>>).err
        /\ dep.err = "empty"

\* C21: after a successful ParseDependency the constraints are, in order,
\* the tokens after the name (but for a locator taken from the last one):
\* one set entry per token, with the operator and version of that token, and
\* Equal for a token without an operator.
C21_ConstraintsInOrder ==
    (pc = "depParsed" /\ dep.err = "nil") =>
        LET toks == Tail(Split(depStr, " "))
            d    == dep.dep[1]
            n    == Len(toks) - (IF d.URL # <<>> THEN 1 ELSE 0)
        IN  /\ Len(d.Constraints) = n
            /\ \A k \in 1..n :
                  /\ d.Constraints[k] # Nil
                  /\ d.Constraints[k][1].Operator = TokenOp(toks[k])
                  /\ d.Constraints[k][1].Version = TokenVersion(toks[k])
                  /\ IsDigit(toks[k][1]) => d.Constraints[k][1].Operator = Equal

\* a line of a constraint with an operator, one without, and a locator
C21_Witness ==
    /\ pc = "depParsed" /\ dep.err = "nil"
    /\ Len(dep.dep[1].Constraints) = 2
    /\ dep.dep[1].Constraints[1][1].Operator = ApproxGreater
    /\ dep.dep[1].Constraints[2][1].Operator = Equal
    /\ IsDigit(Split(depStr, " ")[3][1])
    /\ dep.dep[1].URL # <<>>

\* the first token after the name that is no constraint token, or 0
FirstNonConstraint(toks) ==
    IF \E k \in 1..Len(toks) : rgxConstraint(toks[k]) = Nil
    THEN CHOOSE k \in 1..Len(toks) :
            /\ rgxConstraint(toks[k]) = Nil
            /\ \A j \in 1..(k - 1) : rgxConstraint(toks[j]) # Nil
    ELSE 0

\* what C22 says of a line with a valid name, at the end of the call
LocatorOnlyLast ==
    LET parts == Split(depStr, " ")
        toks  == Tail(parts)
        f     == FirstNonConstraint(toks)
    IN  /\ (MatchName(parts[1]) /\ f # 0) =>
              IF f < Len(toks) THEN dep.err = "constraint"
              ELSE IF rgxDepUrl(toks[f])
              THEN dep.err = "nil" /\ dep.dep[1].URL = toks[f]
              ELSE dep.err = "url"
        /\ (dep.err = "nil" /\ dep.dep[1].URL # <<>>) =>
              /\ f = Len(toks)
              /\ dep.dep[1].URL = toks[Len(toks)]

\* C22: a token that is no constraint is tried as a locator only in the
\* last place; before the last place the call fails with the constraint
\* error, in the last place and no locator with the URL error; the URL of a
\* parsed line is its last token.
C22_LocatorOnlyLast ==
    pc \in {"depParsed", "panicked"} /\ depBack = NoDep => LocatorOnlyLast

\* the text C23 gives for the dependency d: the name, the constraints and
\* the URL, if there is one, with single spaces between them
CanonicalText(d) ==
    IF d.Name = <<>> THEN <<>>
    ELSE Join(<<d.Name>>
              \o [k \in 1..Len(d.Constraints) |->
                     OpString(d.Constraints[k][1].Operator)
                     \o VersionString(d.Constraints[k][1].Version[1])]
              \o (IF d.URL = <<>> THEN <<>> ELSE <<d.URL>>), " ")

\* C23: String() of a dependency with a name is the name, then a space,
\* the operator and the version for each constraint in stored order, then a
\* space and the URL if there is one; without a name it is the empty string.
C23_CanonicalDependencyText ==
    pc \in {"depPrinted", "depReparsed"} => depText = CanonicalText(depV)

\* a dependency without a name, with two constraints and a URL, printed
C23_Witness ==
    /\ pc = "depPrinted"
    /\ depV.Name = <<>>
    /\ Len(depV.Constraints) = 2
    /\ depV.URL # <<>>
    /\ depText = <<>>

\* the parser of the receiver's kind, on the string of the value
YamlParsed ==
    IF yKind = "version" THEN ParseVersion(yValue.s)
    ELSE ParseDependency(yValue.s)

YamlParsedValue ==
    IF yKind = "version" THEN YamlParsed.version[1] ELSE YamlParsed.dep[1]

\* C24: SetYAML returns false for a value that is no string or that the
\* parser rejects and then leaves the receiver as it was; it returns true
\* only after a successful parse, and the receiver is then the parsed value.
C24_SetYAMLFailsCleanly ==
    pc \in {"yamlDone", "yamlPanicked"} =>
        /\ pc = "yamlDone"
        /\ (~yValue.isString \/ YamlParsed.err # "nil") =>
              (~yOk /\ yRecv = yRecv0)
        /\ yOk => /\ yValue.isString /\ YamlParsed.err = "nil"
                  /\ yRecv = YamlParsedValue

\* C25: a call of Packset ends, and ends by returning the packset last
\* given to NewPaths or SetPackset; it does not end in a stack overflow.
C25_PacksetReturns == pc # "stackOverflow"

NonEmptyEntry(e) == e # <<>>

\* C30: NewPaths returns the GOPATH error exactly for the empty gopath; for
\* any other gopath it returns Paths whose Gopaths are the non-empty entries
\* in order, whose GopackPath is gopack under the first of them and whose
\* CombinedPath is Gopath, the list separator and GopacksetPath.
C30_NewPathsDefined ==
    pc \in {"pathsReady", "pathsFailed", "pathsPanicked"} =>
        IF pGopath = <<>> THEN pErr = "gopath" /\ paths = Nil
        ELSE /\ pErr = "nil" /\ paths # Nil
             /\ LET p == paths[1]
                    entries == SelectSeq(Split(pGopath, ":"), NonEmptyEntry)
                IN  /\ p.Gopaths = entries
                    /\ p.GopackPath
                         = Clean(entries[1] \o <<"/", "g", "o", "p", "a", "c", "k">>)
                    /\ p.CombinedPath = pGopath \o <<":">> \o p.GopacksetPath

\* C26: a Clone called while the repository path exists runs no command,
\* leaves the disk as it was and returns no error; a Clone that runs the
\* clone command was called while the path did not exist.
C26_CloneNoOpOnExisting ==
    dCalls > 0 =>
        /\ diskBefore # "absent" =>
              (dCmd = Nil /\ disk = diskBefore /\ dErr = "nil")
        /\ dCmd # Nil => diskBefore = "absent"

\* C27: of two parsed versions exactly one of Equal, GreaterThan and
\* LessThan is satisfied, and the call made agrees with it.
OrderOps == {Equal, GreaterThan, LessThan}

C27_Trichotomy ==
    pc = "compared" =>
        LET bv == b.version[1]
            cv == c.version[1]
            held == {o \in OrderOps : Satisfies(bv, o, cv)}
        IN  /\ Cardinality(held) = 1
            /\ op \in OrderOps => (ok <=> op \in held)

\* two versions that differ in the release only, found to be neither
\* equal nor greater
C27_Witness ==
    /\ pc = "compared" /\ op = GreaterThan /\ ~ok
    /\ SameCore(b.version[1], c.version[1])
    /\ b.version[1].Release # c.version[1].Release
    /\ Satisfies(b.version[1], LessThan, c.version[1])

\* C28: B.Satisfies(GreaterThan, C) is C.Satisfies(LessThan, B), and the
\* same the other way round; compareReleases(x, y) is -compareReleases(y, x).
C28_Duality ==
    pc = "compared" =>
        LET bv == b.version[1]
            cv == c.version[1]
        IN  /\ op = GreaterThan => (ok <=> Satisfies(cv, LessThan, bv))
            /\ op = LessThan => (ok <=> Satisfies(cv, GreaterThan, bv))
            /\ compareReleases(bv.Release, cv.Release)
                   = 0 - compareReleases(cv.Release, bv.Release)

\* a GreaterThan decided by two releases of which one is the start of
\* the other
C28_Witness ==
    /\ pc = "compared" /\ op = GreaterThan /\ ok
    /\ SameCore(b.version[1], c.version[1])
    /\ Len(b.version[1].Release) > 0
    /\ Len(c.version[1].Release) > Len(b.version[1].Release)
    /\ SubSeq(c.version[1].Release, 1, Len(b.version[1].Release))
          = b.version[1].Release

\* C29: GreaterThan is a strict total order on parsed versions: it is
\* transitive, no version is greater than itself, and of two different
\* versions exactly one is greater than the other.
C29_GreaterThanIsStrictTotalOrder ==
    pc = "ordered" =>
        /\ \A i, j, k \in 1..3 : oGt[i][j] /\ oGt[j][k] => oGt[i][k]
        /\ \A i \in 1..3 : ~oGt[i][i]
        /\ \A i, j \in 1..3 :
              oVer[i].version[1] # oVer[j].version[1]
                  => (oGt[i][j] <=> ~oGt[j][i])

\* a chain through a numeric, the empty and a multi-identifier release of
\* one core
C29_Witness ==
    /\ pc = "ordered"
    /\ oGt[1][2] /\ oGt[2][3] /\ oGt[1][3]
    /\ SameCore(oVer[1].version[1], oVer[2].version[1])
    /\ SameCore(oVer[2].version[1], oVer[3].version[1])
    /\ ParseInt(oVer[1].version[1].Release).err = "nil"
    /\ oVer[2].version[1].Release = <<>>
    /\ "." \in Range(oVer[3].version[1].Release)

====
